---- MODULE Spec2Model ----
(***************************************************************************)
(* SmartType configuration GUI (python-gui/main.py).                       *)
(*                                                                         *)
(* The model covers SmartTypeConfig (load_config / save_config /           *)
(* default_config over a YAML file) and the MainWindow handlers that move  *)
(* values between the in-memory config dict, the widgets, the config file  *)
(* and the systemctl service manager.                                      *)
(*                                                                         *)
(* Python values are tagged records, so that values of different Python    *)
(* types can be compared the way Python compares them (unequal, no type    *)
(* error).  A dict is a sequence of items with unique keys: Python dicts   *)
(* keep insertion order, and the tables are filled in that order.          *)
(***************************************************************************)
EXTENDS Integers, Sequences, FiniteSets, TLC

(***************************************************************************)
(* Bounds of the model.                                                    *)
(***************************************************************************)
\* user edits (widget changes, added/removed rows) explored in one run
MaxEdits == 1
\* edits of the typo table explored in one run of SpecTypos
MaxTypoEdits == 3
\* times the program is started in one run
MaxLaunches == 2
\* times save_configuration is run in one run
MaxSaves == 1
\* clicks on the three service buttons in one run
MaxRequests == 1
\* largest integer the YAML resolver of the model recognises as an int
MaxYamlInt == 12

(***************************************************************************)
(* Python values.                                                          *)
(***************************************************************************)
PyNone == [t |-> "none"]
PyBool(b) == [t |-> "bool", v |-> b]
PyInt(n) == [t |-> "int", v |-> n]
PyStr(s) == [t |-> "str", v |-> s]
\* items: a sequence of [k |-> key, v |-> value] with pairwise distinct keys
PyDict(items) == [t |-> "dict", v |-> items]

IsDict(x) == x.t = "dict"

Item(k, v) == [k |-> k, v |-> v]

\* k in d
DictHas(items, k) == \E i \in 1..Len(items) : items[i].k = k

DictIndex(items, k) == CHOOSE i \in 1..Len(items) : items[i].k = k

\* d[k]
DictLookup(items, k) == items[DictIndex(items, k)].v

\* d.get(k, default)
DictGet(items, k, default) ==
    IF DictHas(items, k) THEN DictLookup(items, k) ELSE default

\* d[k] = v on a dict that keeps every key once, at the place of its first
\* insertion, with the value of its last assignment
DictSet(items, k, v) ==
    IF DictHas(items, k)
    THEN [items EXCEPT ![DictIndex(items, k)] = Item(k, v)]
    ELSE Append(items, Item(k, v))

DictKeys(items) == {items[i].k : i \in 1..Len(items)}

\* Python's == on the values of the model: dicts compare as mappings, whatever
\* their insertion order; values of different types are unequal
RECURSIVE PyEq(_, _)
PyEq(a, b) ==
    IF IsDict(a) /\ IsDict(b)
    THEN /\ DictKeys(a.v) = DictKeys(b.v)
         /\ \A k \in DictKeys(a.v) : PyEq(DictLookup(a.v, k), DictLookup(b.v, k))
    ELSE a = b

(***************************************************************************)
(* The YAML text of the config file.                                       *)
(*                                                                         *)
(* A file is a sequence of lines.  A scalar is a token: its text and       *)
(* whether it is quoted.  Line kinds:                                      *)
(*   entry      "key: value"                                               *)
(*   open       "key:"        (a nested block follows, or nothing)         *)
(*   empty      "key: {}"                                                  *)
(*   scalar     a document that is one scalar                              *)
(*   flowempty  the document "{}"                                          *)
(*   bad        text the YAML scanner rejects                              *)
(***************************************************************************)
Tok(q, s) == [q |-> q, s |-> s]
Plain(s) == Tok(FALSE, s)
NoTok == Plain("")

Line(ind, kind, key, val) == [ind |-> ind, kind |-> kind, key |-> key, val |-> val]
Entry(ind, key, val) == Line(ind, "entry", key, val)
Open(ind, key) == Line(ind, "open", key, NoTok)
EmptyMap(ind, key) == Line(ind, "empty", key, NoTok)

\* the plain texts PyYAML's implicit resolver reads as something else than a str
BoolTrueTexts == {"true", "True", "TRUE", "yes", "Yes", "YES", "on", "On", "ON"}
BoolFalseTexts == {"false", "False", "FALSE", "no", "No", "NO", "off", "Off", "OFF"}
NullTexts == {"", "~", "null", "Null", "NULL"}
YamlInts == 0..MaxYamlInt \cup {50}
IsIntText(s) == \E n \in YamlInts : ToString(n) = s
IntOfText(s) == CHOOSE n \in YamlInts : ToString(n) = s

ResolveTag(s) ==
    IF s \in BoolTrueTexts \cup BoolFalseTexts THEN "bool"
    ELSE IF s \in NullTexts THEN "null"
    ELSE IF IsIntText(s) THEN "int"
    ELSE "str"

\* Represent with a str never quoted
RepresentUnquoted(x) ==
    CASE x.t = "none" -> Plain("null")
      [] x.t = "bool" -> Plain(IF x.v THEN "true" ELSE "false")
      [] x.t = "int"  -> Plain(ToString(x.v))
      [] x.t = "str"  -> Plain(x.v)

\* yaml.dump of a scalar: a str is quoted when its plain text would be read
\* back as another type
Represent(x) ==
    CASE x.t = "none" -> Plain("null")
      [] x.t = "bool" -> Plain(IF x.v THEN "true" ELSE "false")
      [] x.t = "int"  -> Plain(ToString(x.v))
      [] x.t = "str"  -> Tok(ResolveTag(x.v) /= "str", x.v)

\* yaml.safe_load of a scalar token
Construct(tok) ==
    IF tok.q THEN PyStr(tok.s)
    ELSE CASE ResolveTag(tok.s) = "bool" -> PyBool(tok.s \in BoolTrueTexts)
           [] ResolveTag(tok.s) = "null" -> PyNone
           [] ResolveTag(tok.s) = "int"  -> PyInt(IntOfText(tok.s))
           [] OTHER -> PyStr(tok.s)

\* Python's order on the strings the model uses as mapping keys (sort_keys)
StrOrder ==
    << "applications", "autocorrect", "becuase", "custom_typos", "enabled",
       "firefox", "hotkey", "hte", "kitty", "min_word_length", "qterminal",
       "smart_punctuation", "smart_quotes", "theme", "true", "vim" >>
StrRank(s) == CHOOSE i \in 1..Len(StrOrder) : StrOrder[i] = s
KeyLess(a, b) == StrRank(a.v) < StrRank(b.v)

RemoveAt(s, i) == SubSeq(s, 1, i - 1) \o SubSeq(s, i + 1, Len(s))

\* sorted(mapping.items())
RECURSIVE SortItems(_)
SortItems(items) ==
    IF items = << >> THEN << >>
    ELSE LET m == CHOOSE i \in 1..Len(items) :
                      \A j \in 1..Len(items) : j = i \/ KeyLess(items[i].k, items[j].k)
         IN  <<items[m]>> \o SortItems(RemoveAt(items, m))

\* the block-style lines of a non-empty mapping (default_flow_style=False)
RECURSIVE DumpItems(_, _)
DumpItems(items, ind) ==
    IF items = << >> THEN << >>
    ELSE LET it == Head(items)
             first ==
                 IF IsDict(it.v)
                 THEN IF it.v.v = << >>
                      THEN <<EmptyMap(ind, Represent(it.k))>>
                      ELSE <<Open(ind, Represent(it.k))>>
                               \o DumpItems(SortItems(it.v.v), ind + 1)
                 ELSE <<Entry(ind, Represent(it.k), Represent(it.v))>>
         IN  first \o DumpItems(Tail(items), ind)

\* yaml.dump(value, default_flow_style=False)
yaml_dump(x) ==
    IF IsDict(x)
    THEN IF x.v = << >> THEN <<Line(0, "flowempty", NoTok, NoTok)>>
         ELSE DumpItems(SortItems(x.v), 0)
    ELSE <<Line(0, "scalar", NoTok, Represent(x))>>

\* The block mapping that starts at line i with indentation ind:
\* [ok, items, next].  A key that comes twice keeps its last value.
RECURSIVE ParseBlock(_, _, _, _)
ParseBlock(lines, i, ind, acc) ==
    IF i > Len(lines) \/ lines[i].ind < ind THEN [ok |-> TRUE, items |-> acc, next |-> i]
    ELSE IF lines[i].ind > ind THEN [ok |-> FALSE, items |-> acc, next |-> i]
    ELSE LET ln == lines[i]
             k == Construct(ln.key)
         IN  CASE ln.kind = "entry" ->
                    ParseBlock(lines, i + 1, ind, DictSet(acc, k, Construct(ln.val)))
               [] ln.kind = "empty" ->
                    ParseBlock(lines, i + 1, ind, DictSet(acc, k, PyDict(<< >>)))
               [] ln.kind = "open" ->
                    IF i + 1 <= Len(lines) /\ lines[i + 1].ind > ind
                    THEN LET sub == ParseBlock(lines, i + 1, ind + 1, << >>)
                         IN  IF sub.ok
                             THEN ParseBlock(lines, sub.next, ind,
                                             DictSet(acc, k, PyDict(sub.items)))
                             ELSE sub
                    ELSE ParseBlock(lines, i + 1, ind, DictSet(acc, k, PyNone))
               [] OTHER -> [ok |-> FALSE, items |-> acc, next |-> i]

\* yaml.safe_load(text): [ok |-> FALSE] stands for a raised yaml.YAMLError
yaml_safe_load(lines) ==
    IF lines = << >> THEN [ok |-> TRUE, val |-> PyNone]
    ELSE IF \E i \in 1..Len(lines) : lines[i].kind = "bad"
    THEN [ok |-> FALSE, val |-> PyNone]
    ELSE IF Len(lines) = 1 /\ lines[1].kind = "scalar"
    THEN [ok |-> TRUE, val |-> Construct(lines[1].val)]
    ELSE IF Len(lines) = 1 /\ lines[1].kind = "flowempty"
    THEN [ok |-> TRUE, val |-> PyDict(<< >>)]
    ELSE LET r == ParseBlock(lines, 1, 0, << >>)
         IN  IF r.ok /\ r.next > Len(lines)
             THEN [ok |-> TRUE, val |-> PyDict(r.items)]
             ELSE [ok |-> FALSE, val |-> PyNone]

(***************************************************************************)
(* SmartTypeConfig.                                                        *)
(***************************************************************************)
AppRule(enabled, smart_quotes, autocorrect) ==
    PyDict(<< Item(PyStr("enabled"), PyBool(enabled)),
              Item(PyStr("smart_quotes"), PyBool(smart_quotes)),
              Item(PyStr("autocorrect"), PyBool(autocorrect)) >>)

default_config ==
    PyDict(<< Item(PyStr("enabled"), PyBool(TRUE)),
              Item(PyStr("smart_punctuation"), PyBool(TRUE)),
              Item(PyStr("autocorrect"), PyBool(TRUE)),
              Item(PyStr("min_word_length"), PyInt(2)),
              Item(PyStr("applications"),
                   PyDict(<< Item(PyStr("firefox"), AppRule(TRUE, TRUE, TRUE)),
                             Item(PyStr("qterminal"), AppRule(TRUE, FALSE, TRUE)),
                             Item(PyStr("kitty"), AppRule(TRUE, FALSE, TRUE)) >>)),
              Item(PyStr("custom_typos"),
                   PyDict(<< Item(PyStr("hte"), PyStr("the")),
                             Item(PyStr("becuase"), PyStr("because")) >>)),
              Item(PyStr("hotkey"), PyStr("Super+Shift+A")) >>)

\* the config file: absent, or its lines
NoFile == [exists |-> FALSE, lines |-> << >>]
FileOf(lines) == [exists |-> TRUE, lines |-> lines]

\* load_config with an empty mapping for a missing file
load_config_empty(f) ==
    IF f.exists THEN yaml_safe_load(f.lines)
    ELSE [ok |-> TRUE, val |-> PyDict(<< >>)]

\* load_config: [ok, val]; ok = FALSE when yaml.safe_load raises
load_config(f) ==
    IF f.exists THEN yaml_safe_load(f.lines)
    ELSE [ok |-> TRUE, val |-> default_config]

(***************************************************************************)
(* Qt widgets.                                                             *)
(***************************************************************************)
\* min_word_spinbox.setMinimum / setMaximum
SpinMin == 1
SpinMax == 10

\* QSpinBox.setValue: the value is bound to [minimum, maximum]
SpinSetValue(n) == IF n < SpinMin THEN SpinMin ELSE IF n > SpinMax THEN SpinMax ELSE n

\* what PyQt accepts for a bool, an int and a str argument; anything else is a
\* TypeError
QtBoolOk(x) == x.t \in {"bool", "int"}
QtBool(x) == IF x.t = "bool" THEN x.v ELSE x.v /= 0
QtIntOk(x) == x.t \in {"int", "bool"}
QtInt(x) == IF x.t = "int" THEN x.v ELSE IF x.v THEN 1 ELSE 0
QtStrOk(x) == x.t = "str"

\* the widgets as init_ui builds them
InitUi ==
    [ enabled_checkbox |-> FALSE,
      autocorrect_checkbox |-> FALSE,
      smart_punctuation_checkbox |-> FALSE,
      min_word_spinbox |-> SpinMin,
      hotkey_input |-> "",
      app_table |-> << >>,
      typo_table |-> << >> ]

AppRow(name, enabled, smart_quotes, autocorrect) ==
    [ name |-> name, enabled |-> enabled, smart_quotes |-> smart_quotes,
      autocorrect |-> autocorrect ]
TypoRow(typo, correction) == [typo |-> typo, correction |-> correction]

Raise(e, w) == [exc |-> e, ui |-> w]
Return(w) == [exc |-> "none", ui |-> w]

AppFlag(rule, name) == DictGet(rule.v, PyStr(name), PyBool(TRUE))

\* load_applications_table: the rows of config.get('applications', {})
load_applications_table(cfg, w) ==
    LET apps == DictGet(cfg.v, PyStr("applications"), PyDict(<< >>))
        rowOk(it) ==
            /\ QtStrOk(it.k)
            /\ IsDict(it.v)
            /\ \A f \in {"enabled", "smart_quotes", "autocorrect"} :
                   QtBoolOk(AppFlag(it.v, f))
    IN  IF ~IsDict(apps)
        THEN Raise(IF apps.t = "str" THEN "AttributeError" ELSE "TypeError", w)
        ELSE IF \E i \in 1..Len(apps.v) : ~rowOk(apps.v[i])
        THEN Raise(IF \E i \in 1..Len(apps.v) : QtStrOk(apps.v[i].k) /\ ~IsDict(apps.v[i].v)
                   THEN "AttributeError" ELSE "TypeError", w)
        ELSE Return([w EXCEPT !.app_table =
                 [ i \in 1..Len(apps.v) |->
                       AppRow(apps.v[i].k.v,
                              QtBool(AppFlag(apps.v[i].v, "enabled")),
                              QtBool(AppFlag(apps.v[i].v, "smart_quotes")),
                              QtBool(AppFlag(apps.v[i].v, "autocorrect"))) ]])

\* load_typos_table: the rows of config.get('custom_typos', {})
load_typos_table(cfg, w) ==
    LET typos == DictGet(cfg.v, PyStr("custom_typos"), PyDict(<< >>))
    IN  IF ~IsDict(typos)
        THEN Raise(IF typos.t = "str" THEN "AttributeError" ELSE "TypeError", w)
        ELSE IF \E i \in 1..Len(typos.v) : ~QtStrOk(typos.v[i].k) \/ ~QtStrOk(typos.v[i].v)
        THEN Raise("TypeError", w)
        ELSE Return([w EXCEPT !.typo_table =
                 [ i \in 1..Len(typos.v) |-> TypoRow(typos.v[i].k.v, typos.v[i].v.v) ]])

\* load_settings: the widgets after it, or the exception it raises
load_settings(cfg, w) ==
    IF ~IsDict(cfg) THEN Raise("AttributeError", w)
    ELSE LET enabled == DictGet(cfg.v, PyStr("enabled"), PyBool(TRUE))
             autocorrect == DictGet(cfg.v, PyStr("autocorrect"), PyBool(TRUE))
             smart == DictGet(cfg.v, PyStr("smart_punctuation"), PyBool(TRUE))
             minw == DictGet(cfg.v, PyStr("min_word_length"), PyInt(2))
             hotkey == DictGet(cfg.v, PyStr("hotkey"), PyStr("Super+Shift+A"))
         IN  IF ~(QtBoolOk(enabled) /\ QtBoolOk(autocorrect) /\ QtBoolOk(smart)
                    /\ QtIntOk(minw) /\ QtStrOk(hotkey))
             THEN Raise("TypeError", w)
             ELSE LET general ==
                          [w EXCEPT !.enabled_checkbox = QtBool(enabled),
                                    !.autocorrect_checkbox = QtBool(autocorrect),
                                    !.smart_punctuation_checkbox = QtBool(smart),
                                    !.min_word_spinbox = SpinSetValue(QtInt(minw)),
                                    !.hotkey_input = hotkey.v]
                      apps == load_applications_table(cfg, general)
                  IN  IF apps.exc /= "none" THEN apps
                      ELSE load_typos_table(cfg, apps.ui)

\* the dict save_configuration builds from the rows of app_table
RECURSIVE AppsOfRows(_, _)
AppsOfRows(rows, acc) ==
    IF rows = << >> THEN acc
    ELSE LET r == Head(rows)
         IN  AppsOfRows(Tail(rows),
                        DictSet(acc, PyStr(r.name),
                                AppRule(r.enabled, r.smart_quotes, r.autocorrect)))

\* TyposOfRows with the first row of a key kept instead of the last
RECURSIVE TyposOfRowsFirstWins(_, _)
TyposOfRowsFirstWins(rows, acc) ==
    IF rows = << >> THEN acc
    ELSE TyposOfRowsFirstWins(Tail(rows),
             IF DictHas(acc, PyStr(Head(rows).typo)) THEN acc
             ELSE DictSet(acc, PyStr(Head(rows).typo), PyStr(Head(rows).correction)))

\* the dict save_configuration builds from the rows of typo_table
RECURSIVE TyposOfRows(_, _)
TyposOfRows(rows, acc) ==
    IF rows = << >> THEN acc
    ELSE TyposOfRows(Tail(rows),
                     DictSet(acc, PyStr(Head(rows).typo), PyStr(Head(rows).correction)))

\* save_configuration, up to the call of save_config: the config dict updated
\* in place from the widgets
ConfigFromWidgets(cfg, w) ==
    LET c1 == DictSet(cfg.v, PyStr("enabled"), PyBool(w.enabled_checkbox))
        c2 == DictSet(c1, PyStr("autocorrect"), PyBool(w.autocorrect_checkbox))
        c3 == DictSet(c2, PyStr("smart_punctuation"), PyBool(w.smart_punctuation_checkbox))
        c4 == DictSet(c3, PyStr("min_word_length"), PyInt(w.min_word_spinbox))
        c5 == DictSet(c4, PyStr("hotkey"), PyStr(w.hotkey_input))
        c6 == DictSet(c5, PyStr("applications"), PyDict(AppsOfRows(w.app_table, << >>)))
        c7 == DictSet(c6, PyStr("custom_typos"), PyDict(TyposOfRows(w.typo_table, << >>)))
    IN  PyDict(c7)

(***************************************************************************)
(* Dialogs and the service manager.                                        *)
(***************************************************************************)
Information(title) == [kind |-> "information", title |-> title]
Warning(title) == [kind |-> "warning", title |-> title]

\* subprocess.run(['systemctl', '--user', cmd, 'smarttype']): the command
\* exits 0, exits non-zero, or cannot be run at all (OSError)
RunResults == {"exit0", "nonzero", "oserror"}
Call(cmd, result) == [cmd |-> cmd, result |-> result]

\* update_status with the exit code test inverted
update_status_inverted(result) ==
    CASE result = "exit0" -> "Inactive"
      [] result = "nonzero" -> "Active"
      [] OTHER -> "Unknown"

\* update_status: the text of status_label after the is-active call
update_status(result) ==
    CASE result = "exit0" -> "Active"
      [] result = "nonzero" -> "Inactive"
      [] OTHER -> "Unknown"

ServiceTitle(cmd) ==
    CASE cmd = "start" -> "Service Started"
      [] cmd = "stop" -> "Service Stopped"
      [] cmd = "restart" -> "Service Restarted"

\* start_service / stop_service / restart_service: what the handler does when
\* systemctl ends with `result` and, if update_status is reached, is-active
\* ends with `statusResult`.  check=True turns a non-zero exit into the
\* CalledProcessError the handler catches; an OSError is not caught.
service_request(cmd, result, statusResult, oldStatus) ==
    CASE result = "exit0" ->
            [ dialogs |-> <<Information(ServiceTitle(cmd))>>,
              calls |-> <<Call(cmd, result), Call("is-active", statusResult)>>,
              status |-> update_status(statusResult),
              exc |-> "none" ]
      [] result = "nonzero" ->
            [ dialogs |-> <<Warning("Error")>>,
              calls |-> <<Call(cmd, result)>>,
              status |-> oldStatus,
              exc |-> "none" ]
      [] OTHER ->
            [ dialogs |-> << >>,
              calls |-> <<Call(cmd, result)>>,
              status |-> oldStatus,
              exc |-> "OSError" ]

(***************************************************************************)
(* State.                                                                  *)
(***************************************************************************)
VARIABLES
    file,         \* the config file: NoFile or FileOf(lines)
    config,       \* config_manager.config
    proc,         \* "off", "running", or "aborted" by an unhandled exception
    pc,           \* "idle", or "writing": save_config has opened the file
    ui,           \* the widgets
    status,       \* the text of status_label after "Status: "
    dialogs,      \* the message boxes the last handler has shown
    calls,        \* the systemctl calls the last handler has made
    exc,          \* the exception that escaped the last handler, or "none"
    lastOp,       \* the last handler
    fileBefore,   \* the file when the last handler began
    loadedFrom,   \* the file the last load_config read
    committed,    \* the config of the last save_config that returned in this
                  \* run of the program, or of load_config if none has
    saved,        \* the config the last completed save_config wrote, while
                  \* the file still holds it; Unset otherwise
    typoAdds,     \* the rows add_typo has added since the tables were loaded
    edited,       \* whether a widget was changed by the user since the load
    edits,        \* user edits so far
    launches,     \* program starts so far
    saves,        \* runs of save_configuration so far
    requests      \* clicks on the service buttons so far

vars == << file, config, proc, pc, ui, status, dialogs, calls, exc, lastOp,
           fileBefore, loadedFrom, committed, saved, typoAdds, edited, edits, launches, saves, requests >>

Unset == [t |-> "unset"]

\* what the user types or picks
HotkeyInputs == {"true", ""}
SpinInputs == {1, 10}
AppNameInputs == {"vim", "true", ""}
TypoInputs == {"hte", ""}
CorrectionInputs == {"the", "thee", ""}

\* config files found at the first start: none; only "enabled: false"; an
\* empty file; text that is not YAML; a document that is a scalar; a file with
\* a min_word_length out of range and a key the program does not know
InitialFiles ==
    { NoFile,
      FileOf(<<Entry(0, Plain("enabled"), Plain("false"))>>),
      FileOf(<< >>),
      FileOf(<<Line(0, "bad", NoTok, NoTok)>>),
      FileOf(<<Line(0, "scalar", NoTok, Plain("12"))>>),
      FileOf(<<Entry(0, Plain("min_word_length"), Plain("50")),
               Entry(0, Plain("theme"), Plain("dark"))>>) }

Init ==
    /\ file \in InitialFiles
    /\ config = Unset
    /\ proc = "off"
    /\ pc = "idle"
    /\ ui = InitUi
    /\ status = ""
    /\ dialogs = << >>
    /\ calls = << >>
    /\ exc = "none"
    /\ lastOp = "none"
    /\ fileBefore = file
    /\ loadedFrom = NoFile
    /\ committed = Unset
    /\ saved = Unset
    /\ typoAdds = << >>
    /\ edited = FALSE
    /\ edits = 0
    /\ launches = 0
    /\ saves = 0
    /\ requests = 0

Idle == proc = "running" /\ pc = "idle"

\* a handler that shows nothing, calls nothing and returns
Quiet == dialogs' = << >> /\ calls' = << >> /\ exc' = "none"

(***************************************************************************)
(* Start and end of the program.                                           *)
(***************************************************************************)
\* main(): MainWindow.__init__ = SmartTypeConfig() (load_config), init_ui,
\* load_settings, setup_tray_icon.  An exception leaves __init__ and main.
Launch ==
    /\ proc /= "running"
    /\ launches < MaxLaunches
    /\ launches' = launches + 1
    /\ LET loaded == load_config(file)
           shown == load_settings(loaded.val, InitUi)
       IN  /\ config' = IF loaded.ok THEN loaded.val ELSE Unset
           /\ exc' = IF ~loaded.ok THEN "YAMLError" ELSE shown.exc
           /\ ui' = IF loaded.ok THEN shown.ui ELSE InitUi
           /\ proc' = IF exc' = "none" THEN "running" ELSE "aborted"
    /\ pc' = "idle"
    /\ status' = ""
    /\ dialogs' = << >>
    /\ calls' = << >>
    /\ lastOp' = "launch"
    /\ fileBefore' = file
    /\ loadedFrom' = file
    /\ committed' = config'
    /\ typoAdds' = << >>
    /\ edited' = FALSE
    /\ UNCHANGED << file, saved, edits, saves, requests >>

\* the tray menu's Quit
Quit ==
    /\ Idle
    /\ proc' = "off"
    /\ config' = Unset
    /\ ui' = InitUi
    /\ status' = ""
    /\ Quiet
    /\ lastOp' = "quit"
    /\ fileBefore' = file
    /\ typoAdds' = << >>
    /\ edited' = FALSE
    /\ UNCHANGED << file, pc, loadedFrom, committed, saved, edits, launches, saves, requests >>

(***************************************************************************)
(* The user's edits of the widgets.                                        *)
(***************************************************************************)
Edit(w, limit) ==
    /\ Idle
    /\ edits < limit
    /\ edits' = edits + 1
    /\ ui' = w
    /\ edited' = TRUE
    /\ Quiet
    /\ lastOp' = "edit"
    /\ fileBefore' = file
    /\ UNCHANGED << file, config, proc, pc, status, loadedFrom, committed, saved, launches, saves, requests >>

\* a click on one of the three general check boxes
ToggleCheckbox ==
    \E box \in {"enabled_checkbox", "autocorrect_checkbox", "smart_punctuation_checkbox"} :
        /\ Edit([ui EXCEPT ![box] = ~ui[box]], MaxEdits)
        /\ UNCHANGED typoAdds

\* a new value in min_word_spinbox
SetMinWordLength ==
    \E n \in SpinInputs :
        /\ n /= ui.min_word_spinbox
        /\ Edit([ui EXCEPT !.min_word_spinbox = SpinSetValue(n)], MaxEdits)
        /\ UNCHANGED typoAdds

\* a new text in hotkey_input
SetHotkey ==
    \E s \in HotkeyInputs :
        /\ s /= ui.hotkey_input
        /\ Edit([ui EXCEPT !.hotkey_input = s], MaxEdits)
        /\ UNCHANGED typoAdds

\* a click on a check box of a row of app_table
ToggleAppCell ==
    \E row \in 1..Len(ui.app_table), col \in {"enabled", "smart_quotes", "autocorrect"} :
        /\ Edit([ui EXCEPT !.app_table[row][col] = ~ui.app_table[row][col]], MaxEdits)
        /\ UNCHANGED typoAdds

add_application ==
    \E app_name \in AppNameInputs, ok \in BOOLEAN :
        /\ ok /\ app_name /= ""
        /\ Edit([ui EXCEPT !.app_table = Append(@, AppRow(app_name, TRUE, TRUE, TRUE))], MaxEdits)
        /\ UNCHANGED typoAdds

\* current_row is -1 when no row is selected; rows are numbered from 0
remove_application ==
    \E current_row \in -1..(Len(ui.app_table) - 1) :
        /\ current_row >= 0
        /\ Edit([ui EXCEPT !.app_table = RemoveAt(@, current_row + 1)], MaxEdits)
        /\ UNCHANGED typoAdds

AddTypo(limit) ==
    \E typo \in TypoInputs, ok1 \in BOOLEAN, correction \in CorrectionInputs, ok2 \in BOOLEAN :
        /\ ok1 /\ typo /= ""
        /\ ok2 /\ correction /= ""
        /\ Edit([ui EXCEPT !.typo_table = Append(@, TypoRow(typo, correction))], limit)
        /\ typoAdds' = Append(typoAdds, TypoRow(typo, correction))

add_typo == AddTypo(MaxEdits)

RemoveTypo(limit) ==
    \E current_row \in -1..(Len(ui.typo_table) - 1) :
        /\ current_row >= 0
        /\ Edit([ui EXCEPT !.typo_table = RemoveAt(@, current_row + 1)], limit)
        /\ UNCHANGED typoAdds

remove_typo == RemoveTypo(MaxEdits)

\* a dialog that is cancelled or left empty, or a Remove with no row selected:
\* the handler returns and nothing changes
NoOpEdit ==
    /\ Idle
    /\ Quiet
    /\ lastOp' = "edit"
    /\ fileBefore' = file
    /\ UNCHANGED << file, config, proc, pc, ui, status, loadedFrom, committed, saved, typoAdds,
                    edited, edits, launches, saves, requests >>

\* the Cancel button: load_settings
Cancel ==
    /\ Idle
    /\ LET shown == load_settings(config, ui)
       IN  /\ ui' = shown.ui
           /\ exc' = shown.exc
           /\ proc' = IF shown.exc = "none" THEN "running" ELSE "aborted"
    /\ dialogs' = << >>
    /\ calls' = << >>
    /\ lastOp' = "load_settings"
    /\ fileBefore' = file
    /\ typoAdds' = << >>
    /\ edited' = FALSE
    /\ UNCHANGED << file, config, pc, status, loadedFrom, committed, saved, edits, launches, saves, requests >>

refresh_statistics ==
    /\ Idle
    /\ dialogs' = <<Information("Statistics")>>
    /\ calls' = << >>
    /\ exc' = "none"
    /\ lastOp' = "refresh_statistics"
    /\ fileBefore' = file
    /\ UNCHANGED << file, config, proc, pc, ui, status, loadedFrom, committed, saved, typoAdds,
                    edited, edits, launches, saves, requests >>

(***************************************************************************)
(* Service buttons.                                                        *)
(***************************************************************************)
ServiceButton(cmd, op) ==
    /\ Idle
    /\ requests < MaxRequests
    /\ requests' = requests + 1
    /\ \E result \in RunResults, statusResult \in RunResults :
           LET r == service_request(cmd, result, statusResult, status)
           IN  /\ dialogs' = r.dialogs
               /\ calls' = r.calls
               /\ status' = r.status
               /\ exc' = r.exc
               /\ proc' = IF r.exc = "none" THEN "running" ELSE "aborted"
    /\ lastOp' = op
    /\ fileBefore' = file
    /\ UNCHANGED << file, config, pc, ui, loadedFrom, committed, saved, typoAdds, edited, edits,
                    launches, saves >>

start_service == ServiceButton("start", "start_service")
stop_service == ServiceButton("stop", "stop_service")
restart_service == ServiceButton("restart", "restart_service")

(***************************************************************************)
(* Saving.                                                                 *)
(***************************************************************************)
\* save_configuration up to save_config's open(config_file, 'w'): the config
\* dict is updated from the widgets, the directory is made and the file is
\* opened for writing, which empties it.  An OSError of mkdir or open leaves
\* the handler.
SaveBegin(w, op) ==
    /\ Idle
    /\ saves < MaxSaves
    /\ saves' = saves + 1
    /\ ui' = w
    /\ config' = ConfigFromWidgets(config, w)
    /\ \E io \in {"ok", "mkdir_oserror", "open_oserror"} :
          IF io = "ok"
          THEN /\ file' = FileOf(<< >>)
               /\ pc' = "writing"
               /\ exc' = "none"
               /\ proc' = "running"
          ELSE /\ file' = file
               /\ pc' = "idle"
               /\ exc' = "OSError"
               /\ proc' = "aborted"
    /\ saved' = IF file' = file THEN saved ELSE Unset
    /\ dialogs' = << >>
    /\ calls' = << >>
    /\ lastOp' = op
    /\ fileBefore' = file
    /\ UNCHANGED << status, loadedFrom, committed, typoAdds, edited, edits, launches, requests >>

\* the Save Configuration button
save_configuration == SaveBegin(ui, "save_configuration")

\* the tray menu's Enable/Disable
toggle_smarttype ==
    SaveBegin([ui EXCEPT !.enabled_checkbox = ~ui.enabled_checkbox], "toggle_smarttype")

\* the rest of save_configuration: yaml.dump writes the file and the file is
\* closed; then the "Configuration Saved" box and restart_service.  An OSError
\* of the write leaves the handler with the file as open() left it.
SaveWrite ==
    /\ proc = "running" /\ pc = "writing"
    /\ pc' = "idle"
    /\ \E wr \in {"ok", "oserror"}, result \in RunResults, statusResult \in RunResults :
          IF wr = "ok"
          THEN LET r == service_request("restart", result, statusResult, status)
               IN  /\ file' = FileOf(yaml_dump(config))
                   /\ saved' = config
                   /\ committed' = config
                   /\ dialogs' = <<Information("Configuration Saved")>> \o r.dialogs
                   /\ calls' = r.calls
                   /\ status' = r.status
                   /\ exc' = r.exc
                   /\ proc' = IF r.exc = "none" THEN "running" ELSE "aborted"
          ELSE /\ file' = file
               /\ saved' = Unset
               /\ committed' = committed
               /\ dialogs' = << >>
               /\ calls' = << >>
               /\ status' = status
               /\ exc' = "OSError"
               /\ proc' = "aborted"
    /\ UNCHANGED << config, ui, lastOp, fileBefore, loadedFrom, typoAdds, edited, edits,
                    launches, saves, requests >>

\* the process is killed while save_config has the file open
Interrupt ==
    /\ proc = "running" /\ pc = "writing"
    /\ proc' = "off"
    /\ pc' = "idle"
    /\ Quiet
    /\ lastOp' = "interrupt"
    /\ UNCHANGED << file, config, ui, status, fileBefore, loadedFrom, committed, saved, typoAdds,
                    edited, edits, launches, saves, requests >>

Next ==
    \/ Launch
    \/ Quit
    \/ ToggleCheckbox
    \/ SetMinWordLength
    \/ SetHotkey
    \/ ToggleAppCell
    \/ add_application
    \/ remove_application
    \/ add_typo
    \/ remove_typo
    \/ NoOpEdit
    \/ Cancel
    \/ refresh_statistics
    \/ start_service
    \/ stop_service
    \/ restart_service
    \/ save_configuration
    \/ toggle_smarttype
    \/ SaveWrite
    \/ Interrupt

Spec == Init /\ [][Next]_vars

(***************************************************************************)
(* The program without widget edits: starts, the service buttons, saves.   *)
(***************************************************************************)
NextService ==
    \/ Launch
    \/ Quit
    \/ Cancel
    \/ refresh_statistics
    \/ start_service
    \/ stop_service
    \/ restart_service
    \/ save_configuration
    \/ toggle_smarttype
    \/ SaveWrite
    \/ Interrupt

SpecService == Init /\ [][NextService]_vars

(***************************************************************************)
(* The typo table: rows added and removed, saved, reloaded.                *)
(***************************************************************************)
NextTypos ==
    \/ Launch
    \/ AddTypo(MaxTypoEdits)
    \/ RemoveTypo(MaxTypoEdits)
    \/ Cancel
    \/ save_configuration
    \/ SaveWrite

SpecTypos == Init /\ [][NextTypos]_vars

(***************************************************************************)
(* save_config and load_config on a range of Settings values: the program  *)
(* runs with some valid Settings in memory and shown in its widgets, saves *)
(* them, and is started again.                                             *)
(***************************************************************************)
RuleValues == {AppRule(TRUE, FALSE, TRUE), AppRule(FALSE, TRUE, FALSE)}

ApplicationsValues ==
    {<< >>}
        \cup {<<Item(PyStr(n), r)>> : n \in {"firefox", "true"}, r \in RuleValues}
        \cup {<<Item(PyStr("firefox"), r), Item(PyStr("true"), CHOOSE q \in RuleValues : q /= r)>> :
                  r \in RuleValues}

TypoValues ==
    {<< >>}
        \cup {<<Item(PyStr(k), PyStr(c))>> : k \in {"hte", "true"}, c \in {"the", "off"}}
        \cup {<<Item(PyStr("true"), PyStr(c)), Item(PyStr("hte"), PyStr(c))>> :
                  c \in {"the", "off"}}

ValidSettings ==
    { PyDict(<< Item(PyStr("enabled"), PyBool(e)),
                Item(PyStr("smart_punctuation"), PyBool(TRUE)),
                Item(PyStr("autocorrect"), PyBool(FALSE)),
                Item(PyStr("min_word_length"), PyInt(n)),
                Item(PyStr("applications"), PyDict(apps)),
                Item(PyStr("custom_typos"), PyDict(typos)),
                Item(PyStr("hotkey"), PyStr(h)) >>) :
          e \in BOOLEAN, n \in {SpinMin, SpinMax},
          apps \in ApplicationsValues, typos \in TypoValues,
          h \in {"Super+Shift+A", "true", ""} }

InitRoundTrip ==
    /\ file = NoFile
    /\ config \in ValidSettings
    /\ proc = "running"
    /\ pc = "idle"
    /\ ui = load_settings(config, InitUi).ui
    /\ status = ""
    /\ dialogs = << >>
    /\ calls = << >>
    /\ exc = "none"
    /\ lastOp = "none"
    /\ fileBefore = file
    /\ loadedFrom = NoFile
    /\ committed = config
    /\ saved = Unset
    /\ typoAdds = << >>
    /\ edited = FALSE
    /\ edits = 0
    /\ launches = 0
    /\ saves = 0
    /\ requests = 0

NextRoundTrip ==
    \/ save_configuration
    \/ SaveWrite
    \/ Interrupt
    \/ Quit
    \/ Launch

SpecRoundTrip == InitRoundTrip /\ [][NextRoundTrip]_vars
(***************************************************************************)
(* Properties.                                                             *)
(***************************************************************************)
SaveOps == {"save_configuration", "toggle_smarttype"}
ServiceOps == {"start_service", "stop_service", "restart_service"}

RecognizedKeys ==
    { "enabled", "smart_punctuation", "autocorrect", "min_word_length", "hotkey",
      "applications", "custom_typos" }

\* what the last load_config decoded from the file it read
Decoded == yaml_safe_load(loadedFrom.lines)
DecodedMapping == loadedFrom.exists /\ Decoded.ok /\ IsDict(Decoded.val)

HasInformation(title) == \E i \in 1..Len(dialogs) : dialogs[i] = Information(title)
HasWarning == \E i \in 1..Len(dialogs) : dialogs[i].kind = "warning"
HasSuccessBox == \E i \in 1..Len(dialogs) : dialogs[i].kind = "information"

\* C1: a valid Settings value that save_config has written is read back by
\* load_config equal in every field: the file decodes to the saved value, and
\* a start of the program from that file holds the saved value in memory.
C1_RoundTrip ==
    saved /= Unset =>
        /\ file.exists
        /\ yaml_safe_load(file.lines).ok
        /\ PyEq(yaml_safe_load(file.lines).val, saved)
        /\ lastOp = "launch" => (exc = "none" /\ PyEq(config, saved))

\* C1's case: the program was started from a file save_config wrote, which
\* holds strings that YAML must quote
C1_Witness ==
    /\ lastOp = "launch"
    /\ saved /= Unset
    /\ exc = "none"
    /\ DictLookup(config.v, PyStr("hotkey")) = PyStr("true")
    /\ DictHas(DictLookup(config.v, PyStr("applications")).v, PyStr("true"))
    /\ DictHas(DictLookup(config.v, PyStr("custom_typos")).v, PyStr("true"))

\* C2: while save_config has the file open, and after the process was killed
\* then, a file that was valid before the save holds the complete prior
\* content or the complete new content, and is not empty.
C2_AtomicSave ==
    ( /\ pc = "writing" \/ lastOp = "interrupt"
      /\ fileBefore.exists
      /\ yaml_safe_load(fileBefore.lines).ok
      /\ IsDict(yaml_safe_load(fileBefore.lines).val) )
    => /\ file.lines /= << >>
       /\ file \in {fileBefore, FileOf(yaml_dump(config))}

\* default_config with the keys of the loaded file laid over it
RECURSIVE Override(_, _)
Override(base, items) ==
    IF items = << >> THEN base
    ELSE Override(DictSet(base, Head(items).k, Head(items).v), Tail(items))

PartiallyDefaulted == PyDict(Override(default_config.v, Decoded.val.v))

\* C3: after a load from a file that lacks some recognized keys, the widgets
\* show the file's values for the keys present and default_config's values
\* for the missing keys; after a save_configuration with no edit, the
\* in-memory Settings and the file hold those values.
C3_PartialDefaulting ==
    ( /\ DecodedMapping
      /\ \E k \in RecognizedKeys : ~DictHas(Decoded.val.v, PyStr(k))
      /\ exc = "none" /\ ~edited )
    => /\ lastOp = "launch" => ui = load_settings(PartiallyDefaulted, InitUi).ui
       /\ (lastOp = "save_configuration" /\ saved = config) =>
              /\ PyEq(config, PartiallyDefaulted)
              /\ PyEq(yaml_safe_load(file.lines).val, PartiallyDefaulted)

\* C4: a start from a file that does not decode into a mapping raises
\* nothing, and the in-memory Settings are the default configuration.
C4_ParseErrorRecovery ==
    (lastOp = "launch" /\ loadedFrom.exists /\ ~DecodedMapping)
    => /\ exc = "none"
       /\ proc = "running"
       /\ PyEq(config, default_config)

\* the values the specification lists for default_config()
ListedDefaults ==
    PyDict(<< Item(PyStr("hotkey"), PyStr("Super+Shift+A")),
              Item(PyStr("min_word_length"), PyInt(2)),
              Item(PyStr("autocorrect"), PyBool(TRUE)),
              Item(PyStr("smart_punctuation"), PyBool(TRUE)),
              Item(PyStr("enabled"), PyBool(TRUE)),
              Item(PyStr("custom_typos"),
                   PyDict(<< Item(PyStr("becuase"), PyStr("because")),
                             Item(PyStr("hte"), PyStr("the")) >>)),
              Item(PyStr("applications"),
                   PyDict(<< Item(PyStr("kitty"), AppRule(TRUE, FALSE, TRUE)),
                             Item(PyStr("qterminal"), AppRule(TRUE, FALSE, TRUE)),
                             Item(PyStr("firefox"), AppRule(TRUE, TRUE, TRUE)) >>)) >>)

\* C5: a start with no config file fails nowhere, holds the listed default
\* values in memory, and creates no file.
C5_MissingFileDefaults ==
    (lastOp = "launch" /\ ~loadedFrom.exists)
    => /\ exc = "none"
       /\ proc = "running"
       /\ PyEq(config, ListedDefaults)
       /\ DictKeys(DictLookup(config.v, PyStr("applications")).v)
              = {PyStr("firefox"), PyStr("qterminal"), PyStr("kitty")}
       /\ ~file.exists

\* C5's case: the program has just started with no config file
C5_Witness == lastOp = "launch" /\ ~loadedFrom.exists /\ proc = "running" /\ launches = 1

InRange(x) == x.t = "int" /\ x.v >= SpinMin /\ x.v <= SpinMax

\* C6: while the program runs, the min_word_length of the in-memory Settings
\* and of a file the program has written is an integer in [1,10].
C6_RangeInvariant ==
    (proc = "running" /\ IsDict(config))
    => /\ DictHas(config.v, PyStr("min_word_length")) =>
              InRange(DictLookup(config.v, PyStr("min_word_length")))
       /\ saved /= Unset =>
              InRange(DictLookup(yaml_safe_load(file.lines).val.v,
                                 PyStr("min_word_length")))

\* the custom_typos of the in-memory Settings
ConfigTypos == DictLookup(config.v, PyStr("custom_typos")).v

TimesAdded(k) == Cardinality({i \in 1..Len(typoAdds) : typoAdds[i].typo = k})
LastAdded(k) ==
    typoAdds[CHOOSE i \in 1..Len(typoAdds) :
                 /\ typoAdds[i].typo = k
                 /\ \A j \in (i + 1)..Len(typoAdds) : typoAdds[j].typo /= k].correction

NoDuplicateRows ==
    \A i, j \in 1..Len(ui.typo_table) :
        ui.typo_table[i].typo = ui.typo_table[j].typo => i = j

\* save_configuration has run on the widgets as they are, and its write is done
JustSaved == lastOp \in SaveOps /\ pc = "idle" /\ saved = config

\* C7 as stated: after add_typo and remove_typo operations in which a key was
\* added more than once, the saved custom_typos holds the key once, with the
\* correction of the last insertion, and the reloaded list has no duplicate.
C7_LastInsertionWins ==
    /\ JustSaved =>
           \A k \in TypoInputs :
               TimesAdded(k) > 1 =>
                   /\ DictHas(ConfigTypos, PyStr(k))
                   /\ DictLookup(ConfigTypos, PyStr(k)) = PyStr(LastAdded(k))
    /\ (lastOp \in {"launch", "load_settings"} /\ exc = "none") => NoDuplicateRows

\* C7 amended: the saved custom_typos holds each key at most once; a key is in
\* it exactly if a row with the key is in the table when save_configuration
\* runs, and it is mapped to the correction of the last such row.  The file
\* holds the same mapping, and the list after a reload has no duplicate.
C7_LastRowWins ==
    /\ (lastOp \in SaveOps /\ proc /= "off") =>
           /\ \A i, j \in 1..Len(ConfigTypos) :
                  ConfigTypos[i].k = ConfigTypos[j].k => i = j
           /\ DictKeys(ConfigTypos)
                  = {PyStr(ui.typo_table[i].typo) : i \in 1..Len(ui.typo_table)}
           /\ \A i \in 1..Len(ui.typo_table) :
                  (\A j \in (i + 1)..Len(ui.typo_table) :
                       ui.typo_table[j].typo /= ui.typo_table[i].typo)
                  => DictLookup(ConfigTypos, PyStr(ui.typo_table[i].typo))
                         = PyStr(ui.typo_table[i].correction)
    /\ JustSaved =>
           PyEq(DictLookup(yaml_safe_load(file.lines).val.v, PyStr("custom_typos")),
                PyDict(ConfigTypos))
    /\ (lastOp \in {"launch", "load_settings"} /\ exc = "none") => NoDuplicateRows

\* C7's case: a key was added twice with different corrections, both rows are
\* in the table, and the configuration has been saved
C7_Witness ==
    /\ JustSaved
    /\ \E k \in TypoInputs : TimesAdded(k) > 1
    /\ \E i, j \in 1..Len(ui.typo_table) :
           /\ i < j
           /\ ui.typo_table[i].typo = ui.typo_table[j].typo
           /\ ui.typo_table[i].correction /= ui.typo_table[j].correction

\* C8: a click on a service button whose systemctl call fails shows an error,
\* reports no success, lets no exception escape, and leaves the in-memory
\* Settings and the config file as they were.
C8_ServiceFailureReported ==
    [][ ( /\ lastOp' \in ServiceOps
          /\ requests' = requests + 1
          /\ calls'[1].result /= "exit0" )
        => /\ exc' = "none"
           /\ \E i \in 1..Len(dialogs') : dialogs'[i].kind = "warning"
           /\ \A i \in 1..Len(dialogs') : dialogs'[i].kind /= "information"
           /\ config' = config
           /\ file' = file ]_vars

\* C9: when a handler has run update_status, no exception has escaped it and
\* the status is Unknown if the is-active call could not be run, Active if
\* it exited 0, Inactive if it exited non-zero.
C9_StatusQuery ==
    \A i \in 1..Len(calls) :
        calls[i].cmd = "is-active" =>
            /\ exc = "none"
            /\ proc = "running"
            /\ calls[i].result = "oserror" => status = "Unknown"
            /\ calls[i].result = "exit0" => status = "Active"
            /\ calls[i].result = "nonzero" => status = "Inactive"

\* C9's case: update_status has run and the is-active call could not be run
C9_Witness ==
    /\ Len(calls) = 2
    /\ calls[2] = Call("is-active", "oserror")
    /\ lastOp \in ServiceOps

\* C10: when save_configuration has ended, the "saved" box and the restart
\* request are there only if save_config has written the file; if it has not,
\* an error is shown, no exception escapes, no success is reported, no restart
\* is requested, and the file holds what it held before.
C10_SaveThenRestart ==
    (lastOp \in SaveOps /\ pc = "idle")
    => /\ (HasInformation("Configuration Saved") \/ calls /= << >>) =>
              file = FileOf(yaml_dump(config))
       /\ ~HasInformation("Configuration Saved") =>
              /\ HasWarning
              /\ exc = "none"
              /\ ~HasSuccessBox
              /\ calls = << >>
              /\ file = fileBefore

\* the Settings the widgets show: what save_configuration would read off them
Shown == ConfigFromWidgets(PyDict(<< >>), ui)

\* every field the Settings s holds is shown with its value, and the tables
\* hold one row for each of its applications and typos and no other row
ShowsExactly(s) ==
    /\ \A k \in RecognizedKeys :
           DictHas(s.v, PyStr(k)) =>
               PyEq(DictLookup(Shown.v, PyStr(k)), DictLookup(s.v, PyStr(k)))
    /\ Len(ui.app_table) = Len(DictGet(s.v, PyStr("applications"), PyDict(<< >>)).v)
    /\ Len(ui.typo_table) = Len(DictGet(s.v, PyStr("custom_typos"), PyDict(<< >>)).v)

\* an edit of the widgets has left the in-memory Settings and the file alone
EditsIsolated == lastOp = "edit" => (config = committed /\ file = fileBefore)

\* Cancel has returned without touching the Settings, the file or systemctl
CancelQuiet ==
    lastOp = "load_settings" =>
        /\ exc = "none"
        /\ config = committed
        /\ file = fileBefore
        /\ calls = << >>

\* after Cancel the widgets and both tables show the committed Settings
CancelShowsCommitted == lastOp = "load_settings" => ShowsExactly(committed)

\* C11: add_application, remove_application, add_typo, remove_typo and changes
\* of the general widgets leave the in-memory Settings and the config file as
\* they were; after such edits Cancel makes every widget and both tables show
\* exactly the Settings of the last successful save (of the initial load if no
\* save has succeeded), without writing the file or calling the service
\* manager.
C11_CancelDiscardsEdits ==
    /\ EditsIsolated
    /\ CancelQuiet
    /\ CancelShowsCommitted
====
